---- MODULE Spec2Model ----
(***************************************************************************)
(* A model of fbnet-pytorch: the candidate catalog (blocks.py), MixedOp,   *)
(* FBNet and Trainer (model.py).                                           *)
(*                                                                         *)
(* Python-level control flow and container semantics are modelled as the   *)
(* source writes them: list indexing (IndexError), len() and calls on      *)
(* lists and modules (TypeError), zip, isinstance, assert, range loops,    *)
(* str.join and file writes.  Tensor arithmetic of torch is abstract: a    *)
(* tensor value is an integer, an optimizer step replaces a value by       *)
(* another one, and a temperature t0 * d^k is kept as its exponent k.      *)
(* Sequence positions in the logs are Python's (0-based).                  *)
(***************************************************************************)
EXTENDS Integers, Sequences, FiniteSets, TLC

\* ---------------------------------------------------------------- bounds
ListSlack == 1      \* catalogs hold 22 -/+ ListSlack candidate lists
MaxWeights == 3     \* MixedOp.forward: weight vectors of 0..MaxWeights entries
MaxCands == 3       \* MixedOp.forward: 0..MaxCands owned candidates
MaxDs == 2          \* batches per stream, and examples per batch
MaxEpoch == 2       \* total_epoch and start_w_epoch range over 0..MaxEpoch
MaxCalls == 2       \* direct train_w / train_t calls by the client

\* ------------------------------------------------------ program constants
NumSearchable == 22       \* assert len(self.theta) == 22
NumBlocks == 24           \* assert len(BLOCKS) == 24
InitTheta == 1            \* init_theta=1.0
InitTemperature == 5      \* init_temperature=5.0

\* Python's seq[i] on a 0-based index.
At(seq, i) == seq[i + 1]

\* The k-th smallest element of a set of integers.
Kth(S, k) == CHOOSE x \in S : Cardinality({y \in S : y < x}) = k - 1

RECURSIVE Flatten(_)
Flatten(ss) == IF ss = <<>> THEN <<>> ELSE Head(ss) \o Flatten(Tail(ss))

\* ------------------------------------------------------------ blocks.py
\* A layer entry: a fixed transform (an nn.Module) or a raw candidate list.
Module == [kind |-> "module", n |-> 0]
CandList(n) == [kind |-> "list", n |-> n]

n_table == <<1, 1, 4, 4, 4, 4, 4, 1, 1>>        \* _n
e_table == <<1, 1, 3, 6, 1, 1, 3, 6>>           \* _e
tbs_range == 1 .. 7                             \* slice(1, 8) of range(len(_n))

\* for _ in range(_n[n_idx]): BLOCKS.append(tmp_block), tmp_block of len(_e)
StageBlocks(n_idx) == [r \in 1 .. At(n_table, n_idx) |-> CandList(Len(e_table))]

get_blocks ==
  <<Module>>
    \o Flatten([k \in 1 .. Cardinality(tbs_range) |-> StageBlocks(Kth(tbs_range, k))])
    \o <<Module>>

\* --------------------------------------------------------- the catalogs
\* The layer sequences a caller hands to FBNet: get_blocks() and edits of it.
DropAt(s, i) == SubSeq(s, 1, i - 1) \o SubSeq(s, i + 1, Len(s))
InsertAt(s, i, x) == SubSeq(s, 1, i - 1) \o <<x>> \o SubSeq(s, i, Len(s))

RECURSIVE Repeat(_, _)
Repeat(x, k) == IF k <= 0 THEN <<>> ELSE <<x>> \o Repeat(x, k - 1)

RECURSIVE DropLists(_, _)
DropLists(s, k) == IF k <= 0 THEN s ELSE DropLists(DropAt(s, 2), k - 1)

Edits == {"same", "single", "empty", "three", "midmodule", "nohead", "liststem"}

Edit(base, e) ==
  CASE e = "same"      -> base
    [] e = "single"    -> [base EXCEPT ![2] = CandList(1)]
    [] e = "empty"     -> [base EXCEPT ![2] = CandList(0)]
    [] e = "three"     -> [base EXCEPT ![Len(base) - 1] = CandList(3)]
    [] e = "midmodule" -> InsertAt(base, 2, Module)
    [] e = "nohead"    -> DropAt(base, Len(base))
    [] e = "liststem"  -> DropAt(InsertAt(base, 1, CandList(2)), 3)

\* d lists more (d > 0) or fewer (d < 0) than get_blocks().
Resize(base, d) ==
  IF d >= 0 THEN InsertAt(base, 2, CandList(Len(e_table)))
                   \o Repeat(CandList(2), d - 1)
            ELSE DropLists(base, -d)

Catalogs ==
  {Edit(get_blocks, e) : e \in Edits}
    \cup {Resize(get_blocks, d) : d \in ((-ListSlack) .. ListSlack) \ {0}}

\* -------------------------------------------------------------- MixedOp
\* sum(w * op(x) for w, op in zip(weights, self._ops)); op j yields outs[j].
RECURSIVE ZipSum(_, _)
ZipSum(weights, outs) ==
  IF weights = <<>> \/ outs = <<>> THEN 0
  ELSE Head(weights) * Head(outs) + ZipSum(Tail(weights), Tail(outs))

\* The terms the sum holds: zip stops at the shorter of its arguments.
ZipLen(weights, outs) == IF Len(weights) < Len(outs) THEN Len(weights) ELSE Len(outs)

MixedOp_forward(weights, outs) ==
  [raised |-> FALSE, terms |-> ZipLen(weights, outs), value |-> ZipSum(weights, outs)]

\* ---------------------------------------------------------------- FBNet
\* FBNet.__init__, the loop over blocks: one theta and one MixedOp per list.
IsList(b) == b.kind = "list"

RECURSIVE InitTheta_loop(_)
InitTheta_loop(bs) ==
  IF bs = <<>> THEN <<>>
  ELSE (IF IsList(Head(bs)) THEN <<[j \in 1 .. Head(bs).n |-> InitTheta]>> ELSE <<>>)
         \o InitTheta_loop(Tail(bs))

RECURSIVE InitOps_loop(_, _)
InitOps_loop(bs, pos) ==
  IF bs = <<>> THEN <<>>
  ELSE (IF IsList(Head(bs)) THEN <<[pos |-> pos, n |-> Head(bs).n]>> ELSE <<>>)
         \o InitOps_loop(Tail(bs), pos + 1)

\* The count check as a lower bound only.
CountOk_m(th) == Len(th) >= NumSearchable

\* assert len(self.theta) == 22
CountOk(th) == Len(th) = NumSearchable

\* FBNet.forward.  One log entry per layer position the loop handles, with the
\* indices it used (-1: not reached), the number of (weight, candidate) pairs
\* the MixedOp summed, and the exception that ended the pass.
Entry(pos, path, ti, si, oi, terms, err) ==
  [pos |-> pos, path |-> path, thetaIdx |-> ti, speedIdx |-> si, opIdx |-> oi,
   terms |-> terms, err |-> err]

\* The body of the loop at l_idx with theta_idx as it stands; weight holds one
\* row per example of the batch (theta.repeat(batch_size, 1)).
ForwardAt(bs, th, os, rows, batch_size, l_idx, theta_idx) ==
  LET block == At(bs, l_idx) IN
  IF ~IsList(block) THEN
    \* len(block) of an nn.Module
    Entry(l_idx, "none", -1, -1, -1, 0, "TypeError")
  ELSE IF block.n > 1 THEN
    IF theta_idx >= Len(th) THEN
      Entry(l_idx, "mixed", theta_idx, -1, -1, 0, "IndexError")
    ELSE IF theta_idx + 1 >= rows THEN
      Entry(l_idx, "mixed", theta_idx, theta_idx + 1, -1, 0, "IndexError")
    ELSE IF theta_idx + 1 >= Len(os) THEN
      Entry(l_idx, "mixed", theta_idx, theta_idx + 1, theta_idx + 1, 0, "IndexError")
    ELSE
      LET weight == [r \in 1 .. batch_size |-> 1]
          outs == [j \in 1 .. At(os, theta_idx + 1).n |-> j]
      IN Entry(l_idx, "mixed", theta_idx, theta_idx + 1, theta_idx + 1,
               MixedOp_forward(weight, outs).terms, "none")
  ELSE
    \* block(data) of a list
    Entry(l_idx, "direct", -1, -1, -1, 0, "TypeError")

RECURSIVE Forward_loop(_, _, _, _, _, _, _)
Forward_loop(bs, th, os, rows, batch_size, l_idx, theta_idx) ==
  IF l_idx >= Len(bs) THEN <<>>
  ELSE LET e == ForwardAt(bs, th, os, rows, batch_size, l_idx, theta_idx) IN
       IF e.err # "none" THEN <<e>>
       ELSE <<e>> \o Forward_loop(bs, th, os, rows, batch_size, l_idx + 1,
                                  IF e.path = "mixed" THEN theta_idx + 1 ELSE theta_idx)

FBNet_forward(bs, th, os, rows, batch_size) ==
  IF IsList(At(bs, 0)) THEN
    \* self._blocks[0](input) of a list
    [log |-> <<>>, err |-> "TypeError"]
  ELSE LET log == Forward_loop(bs, th, os, rows, batch_size, 1, 0) IN
       [log |-> log,
        err |-> IF log = <<>> THEN "none" ELSE log[Len(log)].err]

\* ------------------------------------------------------------- tensors
\* A trainable tensor (or the parameter group of one module) of the network.
Tn(k, a, b) == [k |-> k, a |-> a, b |-> b]

ThetaTensors(th) == {Tn("theta", i - 1, 0) : i \in 1 .. Len(th)}

CandTensors(bs) ==
  UNION {{Tn("cand", p - 1, j) : j \in 1 .. bs[p].n} : p \in {q \in 1 .. Len(bs) : IsList(bs[q])}}

FixedTensors(bs) == {Tn("fixed", p - 1, 0) : p \in {q \in 1 .. Len(bs) : ~IsList(bs[q])}}

ClassifierTensors == {Tn("classifier", 0, 0), Tn("classifier", 1, 0)}

\* The attributes FBNet.__init__ assigns that hold tensors, and what each is:
\* nn.Module registers an attribute as a submodule only if it is an nn.Module.
AttrKind ==
  [_criterion |-> "module", theta |-> "list", _ops |-> "list", _blocks |-> "list",
   classifier |-> "module"]

AttrTensors(attr, bs, th) ==
  CASE attr = "_criterion" -> {}
    [] attr = "theta"      -> ThetaTensors(th)
    [] attr = "_ops"       -> CandTensors(bs)
    [] attr = "_blocks"    -> CandTensors(bs) \cup FixedTensors(bs)
    [] attr = "classifier" -> ClassifierTensors

TrainableTensors(bs, th) == UNION {AttrTensors(a, bs, th) : a \in DOMAIN AttrKind}

\* network.parameters(): the tensors of the registered submodules.
parameters(bs, th) ==
  UNION {AttrTensors(a, bs, th) : a \in {x \in DOMAIN AttrKind : AttrKind[x] = "module"}}

\* Trainer.__init__: mod_params = [v for v in parameters() if v not in theta_params]
mod_params(bs, th) == {v \in parameters(bs, th) : v \notin ThetaTensors(th)}

\* optimizer.step(): every value of the optimizer's own partition moves.
SGD_step(vals, part) ==
  [id \in DOMAIN vals |-> IF id \in part THEN vals[id] + 1 ELSE vals[id]]

Adam_step(th, part) ==
  [i \in 1 .. Len(th) |->
     IF Tn("theta", i - 1, 0) \in part THEN [j \in 1 .. Len(th[i]) |-> th[i][j] + 1]
     ELSE th[i]]

\* utils.AvgrageMeter.update(val, n)
Meter_update(m, val, n) ==
  [sum |-> m.sum + val * n, cnt |-> m.cnt + n, n |-> m.n + 1]

NewMeter == [sum |-> 0, cnt |-> 0, n |-> 0]

\* ---------------------------------------------------------- save_theta
Ch(c) == [c |-> c, v |-> 0]
Val(v) == [c |-> "val", v |-> v]

\* ' '.join([str(tmp) for tmp in t_list]); str(tmp) is one token, no blank in it
RECURSIVE Join(_)
Join(vals) ==
  IF vals = <<>> THEN <<>>
  ELSE IF Len(vals) = 1 THEN <<Val(Head(vals))>>
  ELSE <<Val(Head(vals)), Ch(" ")>> \o Join(Tail(vals))

\* what f.write appends after each joined line
Terminator == <<Ch("/"), Ch("n")>>

RECURSIVE WriteTheta(_)
WriteTheta(th) ==
  IF th = <<>> THEN <<>> ELSE Join(Head(th)) \o Terminator \o WriteTheta(Tail(th))

VARIABLES blocks, speedRows, net, theta, ops, speedOpened, fwd, mix,
          trn, wPart, tPart, wVal, temp, out, accs, calls,
          sPc, sArgs, sEpoch, sStep, file, saved

netVars == <<blocks, speedRows, net, ops, speedOpened>>
searchVars == <<sPc, sArgs, sEpoch, sStep>>
trainVars == <<theta, wVal, temp, out, accs, calls>>
vars == <<blocks, speedRows, net, theta, ops, speedOpened, fwd, mix,
          trn, wPart, tPart, wVal, temp, out, accs, calls,
          sPc, sArgs, sEpoch, sStep, file, saved>>

\* The state a training call reads and writes.
TState == [theta |-> theta, wVal |-> wVal, temp |-> temp, out |-> out, err |-> "none"]

\* What forward leaves on the network for _step to read.
Outputs(batch_size) == [valid |-> TRUE, batch_size |-> batch_size, acc |-> 1,
                        ce |-> 2 * batch_size, lat_loss |-> 3 * batch_size]

\* self.temp *= self._tem_decay, on a temperature kept as t0 * d^k
Decay(t) == [t EXCEPT !.k = @ + 1]

\* train_w stepping the theta optimizer, and ahead of the forward pass.
train_w_m(s, batch_size, decay_temperature) ==
  LET s1 == [s EXCEPT !.theta = Adam_step(@, tPart)]
      r == FBNet_forward(blocks, s1.theta, ops, speedRows, batch_size)
  IN IF r.err # "none" THEN [s1 EXCEPT !.err = r.err]
     ELSE [s1 EXCEPT !.out = Outputs(batch_size),
                     !.temp = IF decay_temperature THEN Decay(@) ELSE @]

\* Trainer.train_w(input, target, decay_temperature)
train_w(s, batch_size, decay_temperature) ==
  LET r == FBNet_forward(blocks, s.theta, ops, speedRows, batch_size) IN
  IF r.err # "none" THEN [s EXCEPT !.err = r.err]
  ELSE [s EXCEPT !.out = Outputs(batch_size),
                 !.wVal = SGD_step(@, wPart),
                 !.temp = IF decay_temperature THEN Decay(@) ELSE @]

\* Trainer.train_t(input, target, decay_temperature)
train_t(s, batch_size, decay_temperature) ==
  LET r == FBNet_forward(blocks, s.theta, ops, speedRows, batch_size) IN
  IF r.err # "none" THEN [s EXCEPT !.err = r.err]
  ELSE [s EXCEPT !.out = Outputs(batch_size),
                 !.theta = Adam_step(@, tPart),
                 !.temp = IF decay_temperature THEN Decay(@) ELSE @]

Call(op, decay, by, batch) == [op |-> op, decay |-> decay, by |-> by, batch |-> batch]

\* Trainer._step(input, target, epoch, step, log_frequence, func): func, then the
\* three meters from what forward left on the network.
step_accs(s, a) ==
  IF s.err # "none" THEN a
  ELSE LET bsz == s.out.batch_size IN
       [acc |-> Meter_update(a.acc, s.out.acc, bsz),
        ce  |-> Meter_update(a.ce, s.out.ce \div bsz, bsz),
        lat |-> Meter_update(a.lat, s.out.lat_loss \div bsz, bsz)]

\* The client: it either exercises a MixedOp on its own, or constructs a network
\* and then either calls it directly or hands it to a Trainer; on the Trainer it
\* makes up to MaxCalls direct training calls or one search, and may save theta
\* last.  These choices appear as the guards on net, trn, fwd, mix, calls, sPc
\* and saved below; the remaining guards are the code's own conditions.
Init ==
  /\ blocks = <<>>
  /\ speedRows = 0
  /\ net = "none"
  /\ theta = <<>>
  /\ ops = <<>>
  /\ speedOpened = FALSE
  /\ fwd = [called |-> FALSE, log |-> <<>>, err |-> "none"]
  /\ mix = [called |-> FALSE, n |-> 0, m |-> 0, raised |-> FALSE, terms |-> 0,
            value |-> 0]
  /\ trn = "none"
  /\ wPart = {}
  /\ tPart = {}
  /\ wVal = <<>>
  /\ temp = [t0 |-> InitTemperature, k |-> 0]
  /\ out = [valid |-> FALSE, batch_size |-> 0, acc |-> 0, ce |-> 0, lat_loss |-> 0]
  /\ accs = [acc |-> NewMeter, ce |-> NewMeter, lat |-> NewMeter]
  /\ calls = <<>>
  /\ sPc = "idle"
  /\ sArgs = [W |-> <<>>, T |-> <<>>, total_epoch |-> 0, start_w_epoch |-> 0]
  /\ sEpoch = 0
  /\ sStep = 0
  /\ file = <<>>
  /\ saved = [called |-> FALSE, res |-> <<>>]

\* MixedOp(cands).forward(x, weights) on a MixedOp of n candidates.
MixedOpCall ==
  /\ ~mix.called
  /\ net = "none"
  /\ \E n \in 0 .. MaxCands, m \in 0 .. MaxWeights :
       LET outs == [j \in 1 .. n |-> j]
           ws == [j \in 1 .. m |-> 1]
           r == MixedOp_forward(ws, outs)
       IN mix' = [called |-> TRUE, n |-> n, m |-> m, raised |-> r.raised,
                  terms |-> r.terms, value |-> r.value]
  /\ UNCHANGED <<netVars, theta, fwd, trn, wPart, tPart, wVal, temp, out, accs,
                 calls, searchVars, file, saved>>

\* FBNet(num_classes, blocks, speed_f=...): the file holds `rows` lines.
FBNetInit ==
  /\ net = "none"
  /\ ~mix.called
  /\ \E bs \in Catalogs, rows \in {NumSearchable, NumSearchable + 1} :
       LET th == InitTheta_loop(bs) IN
       /\ blocks' = bs
       /\ speedRows' = rows
       /\ theta' = th
       /\ ops' = InitOps_loop(bs, 0)
       /\ net' = IF CountOk(th) THEN "built" ELSE "failed"
       /\ speedOpened' = CountOk(th)
       /\ wVal' = [id \in TrainableTensors(bs, th) \ ThetaTensors(th) |-> 0]
  /\ UNCHANGED <<fwd, mix, trn, wPart, tPart, temp, out, accs, calls, searchVars,
                 file, saved>>

\* network(input, target, temperature), called by the client.
NetForward ==
  /\ net = "built"
  /\ trn = "none"
  /\ ~fwd.called
  /\ \E batch_size \in 1 .. MaxDs :
       LET r == FBNet_forward(blocks, theta, ops, speedRows, batch_size) IN
       fwd' = [called |-> TRUE, log |-> r.log, err |-> r.err]
  /\ UNCHANGED <<netVars, theta, mix, trn, wPart, tPart, wVal, temp, out, accs,
                 calls, searchVars, file, saved>>

\* Trainer(network)
TrainerInit ==
  /\ net = "built"
  /\ trn = "none"
  /\ ~fwd.called
  /\ trn' = "built"
  /\ tPart' = ThetaTensors(theta)
  /\ wPart' = mod_params(blocks, theta)
  /\ temp' = [t0 |-> InitTemperature, k |-> 0]
  /\ accs' = [acc |-> NewMeter, ce |-> NewMeter, lat |-> NewMeter]
  /\ UNCHANGED <<netVars, theta, fwd, mix, wVal, out, calls, searchVars, file, saved>>

Apply(s) ==
  /\ theta' = s.theta
  /\ wVal' = s.wVal
  /\ temp' = s.temp
  /\ out' = s.out

\* trainer.train_w(x, y[, decay_temperature]) called by the client.
TrainW ==
  /\ trn = "built" /\ sPc = "idle" /\ ~saved.called
  /\ Len(calls) < MaxCalls
  /\ \E decay \in BOOLEAN, batch_size \in 1 .. MaxDs :
       /\ Apply(train_w(TState, batch_size, decay))
       /\ calls' = Append(calls, Call("train_w", decay, "client", 0))
  /\ UNCHANGED <<netVars, fwd, mix, trn, wPart, tPart, accs, searchVars, file, saved>>

\* trainer.train_t(x, y[, decay_temperature]) called by the client.
TrainT ==
  /\ trn = "built" /\ sPc = "idle" /\ ~saved.called
  /\ Len(calls) < MaxCalls
  /\ \E decay \in BOOLEAN, batch_size \in 1 .. MaxDs :
       /\ Apply(train_t(TState, batch_size, decay))
       /\ calls' = Append(calls, Call("train_t", decay, "client", 0))
  /\ UNCHANGED <<netVars, fwd, mix, trn, wPart, tPart, accs, searchVars, file, saved>>

\* A batch stream of k batches; batch i holds i examples.
Stream(k) == [i \in 1 .. k |-> i]

\* trainer.search(train_w_ds, train_t_ds, total_epoch, start_w_epoch): entry.
SearchCall ==
  /\ trn = "built" /\ sPc = "idle" /\ ~saved.called
  /\ calls = <<>>
  /\ \E nw \in 0 .. MaxDs, nt \in 0 .. MaxDs,
        te \in 0 .. MaxEpoch, we \in 0 .. MaxEpoch :
       /\ sArgs' = [W |-> Stream(nw), T |-> Stream(nt), total_epoch |-> te,
                    start_w_epoch |-> we]
       \* assert start_w_epoch >= 1
       /\ sPc' = IF we >= 1 THEN "warmup" ELSE "raised"
  /\ sEpoch' = 0
  /\ sStep' = 0
  /\ UNCHANGED <<netVars, fwd, mix, trn, wPart, tPart, trainVars, file, saved>>

\* One self._step(...) of a loop of search: func on the batch, then the meters;
\* an exception leaves search.
SearchBatch(op, batch_size) ==
  LET s == IF op = "train_w" THEN train_w(TState, batch_size, FALSE)
                             ELSE train_t(TState, batch_size, TRUE)
  IN /\ Apply(s)
     /\ accs' = step_accs(s, accs)
     /\ calls' = Append(calls, Call(op, op = "train_t", "search", sStep))
     /\ sPc' = IF s.err # "none" THEN "raised" ELSE sPc
     /\ sStep' = sStep + 1
     /\ UNCHANGED <<netVars, fwd, mix, trn, wPart, tPart, sArgs, sEpoch, file, saved>>

LoopCtl == UNCHANGED <<netVars, fwd, mix, trn, wPart, tPart, trainVars, sArgs,
                       file, saved>>

\* The loop search stands in: its stream, its update, and whether its header
\* still admits the epoch.
CurDs == IF sPc = "theta" THEN sArgs.T ELSE sArgs.W
CurOp == IF sPc = "theta" THEN "train_t" ELSE "train_w"
InLoop ==
  CASE sPc = "warmup"  -> sEpoch < sArgs.start_w_epoch
    [] sPc = "theta"   -> sEpoch < sArgs.total_epoch
    [] sPc = "weights" -> TRUE
    [] OTHER           -> FALSE

\* The body of the three inner loops, for step, (input, target) in enumerate(ds):
\* self._step(input, target, ..., lambda x, y: self.train_w(x, y, False)) in the
\* warm-up and weights passes, self.train_t(x, y, True) in the theta pass.
SearchStep ==
  /\ InLoop /\ sStep < Len(CurDs)
  /\ SearchBatch(CurOp, At(CurDs, sStep))

\* for epoch in range(start_w_epoch): the pass over train_w_ds is exhausted.
WarmupEpochEnd ==
  /\ sPc = "warmup" /\ sEpoch < sArgs.start_w_epoch /\ sStep = Len(sArgs.W)
  /\ sEpoch' = sEpoch + 1 /\ sStep' = 0 /\ sPc' = sPc
  /\ LoopCtl

\* range(start_w_epoch) is exhausted: self.tic = time.time(), the second loop.
WarmupEnd ==
  /\ sPc = "warmup" /\ sEpoch = sArgs.start_w_epoch
  /\ sEpoch' = 0 /\ sStep' = 0 /\ sPc' = "theta"
  /\ LoopCtl

\* for epoch in range(total_epoch): the pass over train_t_ds is exhausted.
ThetaPassEnd ==
  /\ sPc = "theta" /\ sEpoch < sArgs.total_epoch /\ sStep = Len(sArgs.T)
  /\ sEpoch' = sEpoch /\ sStep' = 0 /\ sPc' = "weights"
  /\ LoopCtl

\* ... and then the pass over train_w_ds is.
WeightsPassEnd ==
  /\ sPc = "weights" /\ sStep = Len(sArgs.W)
  /\ sEpoch' = sEpoch + 1 /\ sStep' = 0 /\ sPc' = "theta"
  /\ LoopCtl

\* range(total_epoch) is exhausted: search returns.
SearchReturn ==
  /\ sPc = "theta" /\ sEpoch = sArgs.total_epoch
  /\ sPc' = "returned" /\ UNCHANGED <<sEpoch, sStep>>
  /\ LoopCtl

\* trainer.save_theta(save_path)
SaveTheta ==
  /\ trn = "built" /\ sPc \in {"idle", "returned", "raised"} /\ ~saved.called
  /\ file' = WriteTheta(theta)
  /\ saved' = [called |-> TRUE, res |-> theta]
  /\ UNCHANGED <<netVars, fwd, mix, trn, wPart, tPart, trainVars, searchVars>>

Next ==
  \/ MixedOpCall
  \/ FBNetInit
  \/ NetForward
  \/ TrainerInit
  \/ TrainW
  \/ TrainT
  \/ SearchCall
  \/ SearchStep
  \/ WarmupEpochEnd
  \/ WarmupEnd
  \/ ThetaPassEnd
  \/ WeightsPassEnd
  \/ SearchReturn
  \/ SaveTheta


Spec == Init /\ [][Next]_vars

\* ================================================================ claims
ListPositions(bs) == {p \in 1 .. Len(bs) : bs[p].kind = "list"}

SearchEnded == sPc \in {"returned", "raised"}

RECURSIVE Times(_, _)
Times(s, k) == IF k <= 0 THEN <<>> ELSE s \o Times(s, k - 1)

PassCalls(ds, op) == [i \in 1 .. Len(ds) |-> Call(op, op = "train_t", "search", i - 1)]

\* The update calls the two-phase schedule issues, in order.
Schedule(a) ==
  Times(PassCalls(a.W, "train_w"), a.start_w_epoch)
    \o Times(PassCalls(a.T, "train_t") \o PassCalls(a.W, "train_w"), a.total_epoch)

IsDecayCall(c) == c.decay
IsSearchCall(c) == c.by = "search"

\* A text file read back: its lines end at newline characters (a last line
\* may lack one), and a line's tokens are its maximal runs of non-blanks.
NewlineAt(f) == {i \in 1 .. Len(f) : f[i].c = "\n"}
NumLines(f) ==
  Cardinality(NewlineAt(f)) + (IF f # <<>> /\ f[Len(f)].c # "\n" THEN 1 ELSE 0)
LineTerminated(f, k) == k <= Cardinality(NewlineAt(f))
LineFirst(f, k) == IF k = 1 THEN 1 ELSE Kth(NewlineAt(f), k - 1) + 1
LineLast(f, k) == IF LineTerminated(f, k) THEN Kth(NewlineAt(f), k) - 1 ELSE Len(f)
TokenCount(f, k) ==
  Cardinality({i \in LineFirst(f, k) .. LineLast(f, k) :
                 f[i].c # " " /\ (i = LineFirst(f, k) \/ f[i - 1].c = " ")})

\* C1: once search has ended (for a warm-up count it accepts), the update calls
\* it issued are exactly the schedule: start_w_epoch passes over W with
\* train_w, then total_epoch times a pass over T with train_t followed by a
\* pass over W with train_w.
C1_SearchIssuesSchedule ==
  (SearchEnded /\ sArgs.start_w_epoch >= 1) => calls = Schedule(sArgs)

C3_TemperatureDecays ==
  trn = "built" =>
    /\ temp.k = Len(SelectSeq(calls, IsDecayCall))
    /\ (sPc = "returned" => temp.k = sArgs.total_epoch * Len(sArgs.T))

\* C4: construction makes one theta vector and one MixedOp per list-valued
\* entry, fails exactly when the number of list-valued entries is not 22, then
\* before the latency table is opened and with no network to use, and passes
\* on the 24 entries of get_blocks().
C4_ConstructionCount ==
  net # "none" =>
    /\ Len(theta) = Cardinality(ListPositions(blocks))
    /\ Len(ops) = Cardinality(ListPositions(blocks))
    /\ {ops[i].pos + 1 : i \in 1 .. Len(ops)} = ListPositions(blocks)
    /\ \A i \in 1 .. Len(ops) :
         /\ ops[i].n = blocks[ops[i].pos + 1].n
         /\ Len(theta[i]) = ops[i].n
         /\ \A j \in 1 .. i - 1 : ops[j].pos < ops[i].pos
    /\ (net = "failed") <=> (Cardinality(ListPositions(blocks)) # NumSearchable)
    /\ (net = "failed" => ~speedOpened /\ ~fwd.called /\ trn = "none")
    /\ (blocks = get_blocks => Len(blocks) = NumBlocks /\ net = "built")

\* C4 witness: a catalog with more than 22 candidate lists was refused.
C4_Witness == net = "failed" /\ Len(theta) > NumSearchable

\* C5: once the driver is constructed, the theta partition is the theta vectors
\* and the weights partition is every other trainable tensor of the network;
\* the two are disjoint and together complete.
C5_PartitionComplete ==
  trn = "built" =>
    /\ tPart = ThetaTensors(theta)
    /\ wPart = TrainableTensors(blocks, theta) \ ThetaTensors(theta)
    /\ wPart \cap tPart = {}
    /\ wPart \cup tPart = TrainableTensors(blocks, theta)

\* C6: at the i-th searchable position of a forward pass the theta index, the
\* latency-row index and the MixedOp index are all i, each within range.
C6_IndicesAligned ==
  \A k \in 1 .. Len(fwd.log) :
    fwd.log[k].path = "mixed" =>
      /\ fwd.log[k].thetaIdx = Cardinality({j \in 1 .. k - 1 : fwd.log[j].path = "mixed"})
      /\ fwd.log[k].speedIdx = fwd.log[k].thetaIdx
      /\ fwd.log[k].opIdx = fwd.log[k].thetaIdx
      /\ fwd.log[k].err = "none"

\* C7: MixedOp.forward fails whenever the weight vector and the candidate list
\* differ in length, and sums every candidate when they agree.
C7_LengthMismatchFails ==
  mix.called =>
    /\ (mix.m # mix.n => mix.raised)
    /\ (mix.m = mix.n => ~mix.raised /\ mix.terms = mix.n)

\* C8: the file save_theta wrote reads back as one newline-terminated line per
\* theta vector with as many tokens as the vector has values, and the call
\* returns the theta list.
C8_SaveThetaRoundTrip ==
  saved.called =>
    /\ saved.res = theta
    /\ NumLines(file) = Len(theta)
    /\ \A i \in 1 .. Len(theta) :
         /\ LineTerminated(file, i)
         /\ TokenCount(file, i) = Len(theta[i])

\* C9: each of the three meters has been updated once per batch search has
\* processed, with the batch size as count, and when search returns it holds
\* start_w_epoch*|W| + total_epoch*(|T|+|W|) updates.
C9_MetersPerBatch ==
  \A m \in {"acc", "ce", "lat"} :
    /\ accs[m].n = Len(SelectSeq(calls, IsSearchCall))
    /\ (sPc = "returned" =>
          accs[m].n = sArgs.start_w_epoch * Len(sArgs.W)
                        + sArgs.total_epoch * (Len(sArgs.T) + Len(sArgs.W)))

\* C10: forward handles a position as a Mixed Operation exactly when it is a
\* list-valued entry (a single-candidate list included), and applies every
\* other entry directly, without error and with no theta or latency access.
C10_SameClassification ==
  \A k \in 1 .. Len(fwd.log) :
    LET e == fwd.log[k] IN
    IF blocks[e.pos + 1].kind = "list"
    THEN e.path = "mixed"
    ELSE e.path = "direct" /\ e.err = "none" /\ e.thetaIdx = -1 /\ e.speedIdx = -1
====
